---- MODULE Spec2Model ----
(***************************************************************************)
(* A model of the vendor part of the food-ordering marketplace:            *)
(*   - Vendor.save and its approval notification (vendor/models.py,        *)
(*     accounts/utils.py send_notification), run by interleaved requests;  *)
(*   - Vendor.is_open over the OpeningHour table (vendor/models.py);       *)
(*   - detectUser (accounts/utils.py).                                     *)
(***************************************************************************)
EXTENDS Integers, Sequences, FiniteSets, Bags, TLC

VARIABLES
    db,        \* the Vendor table: vendor id -> [exists, is_approved]
    outbox,    \* every EmailMessage the transport has accepted, in order
    calls,     \* number of Vendor.save calls begun so far
    pc,        \* per request: where it stands inside Vendor.save
    self,      \* per request: the Vendor instance being saved
    orig,      \* per request: orig.is_approved as read at line 77
    mailed,    \* per request: the messages this call of save has sent
    replaced,  \* per request: what the write of this call replaced
    err,       \* per request: the exception this call of save raised
    hours,     \* the OpeningHour table: a bag of rows (the pk is never read)
    probe,     \* the last call of Vendor.is_open on the table as it stands
    hourCall,  \* the save of an OpeningHour row whose caller has not gone on
    users,     \* the User table: user id -> [role, is_superadmin]
    redirect,  \* per user: what detectUser returned for it
    profiles,  \* the UserProfile table: id -> [latitude, longitude, location]
    profileErr \* the exception the last call of UserProfile.save raised

vars == <<db, outbox, calls, pc, self, orig, mailed, replaced, err,
          hours, probe, hourCall, users, redirect, profiles, profileErr>>

hourVars == <<hours, probe, hourCall>>
userVars == <<users, redirect, profiles, profileErr>>

(***************************************************************************)
(* Bounds of the model.                                                    *)
(***************************************************************************)
MaxSaves == 4

MaxRows == 2

\* The vendors (each the vendor of the user with the same id) and the
\* requests that may run Vendor.save at the same time.
Vendors == {1, 2}
Requests == {"req1", "req2"}

\* self.pk of an instance that was never saved (pk is None).
NoPk == 0

(***************************************************************************)
(* accounts.User: the e-mail address of the vendor's user (unique).        *)
(***************************************************************************)
Email(u) == IF u = 1 THEN "vendor1@example.com" ELSE "vendor2@example.com"

(***************************************************************************)
(* Vendor.save: the notification it builds.                                *)
(***************************************************************************)
mail_template == "accounts/emails/admin_approval_email.html"

ApprovedSubject == "Congratulations! Your restaurant has been approved."

RejectedSubject ==
    "We're sorry! You are not eligible for publishing your food menu on our marketplace."

\* lines 80-84: the context handed to the template
context(inst) ==
    [user |-> inst.user, is_approved |-> inst.is_approved,
     to_email |-> Email(inst.user)]

\* lines 85-92: the subject chosen from the incoming flag
mail_subject_Swapped(is_approved) ==
    IF is_approved = TRUE THEN RejectedSubject ELSE ApprovedSubject

mail_subject(is_approved) ==
    IF is_approved = TRUE THEN ApprovedSubject ELSE RejectedSubject

\* accounts/utils.py send_notification: the EmailMessage it builds. The
\* context's to_email is a single address here (a str), which the function
\* wraps into a one-element list.
send_notification(subject, template, ctx) ==
    [subject |-> subject, template |-> template,
     to |-> <<ctx.to_email>>, is_approved |-> ctx.is_approved,
     content_subtype |-> "html"]

\* line 78: has the approval flag changed?
ApprovalChanged_Always(o, incoming) == TRUE

ApprovalChanged_OnlyApproval(o, incoming) == o /= incoming /\ incoming = TRUE

ApprovalChanged(o, incoming) == o /= incoming

\* The messages one call of save dispatches (lines 78-92).
\* (a variant that compares with the row stored now, not the one read)
Notifications_Recheck(o, inst) ==
    IF ApprovalChanged(db[inst.user].is_approved, inst.is_approved)
    THEN <<send_notification(mail_subject(inst.is_approved),
                             mail_template, context(inst))>>
    ELSE <<>>

Notifications(o, inst) ==
    IF ApprovalChanged(o, inst.is_approved)
    THEN <<send_notification(mail_subject(inst.is_approved),
                             mail_template, context(inst))>>
    ELSE <<>>

\* What a write replaced, as text.
RowText(row) ==
    IF ~row.exists THEN "NoRow"
    ELSE IF row.is_approved THEN "True" ELSE "False"

(***************************************************************************)
(* Text. A string is the tuple of its characters; Python compares strings  *)
(* character by character, by code point.                                  *)
(***************************************************************************)
Digits == <<"0", "1", "2", "3", "4", "5", "6", "7", "8", "9">>

DigitValue(c) == CHOOSE n \in 0..9 : Digits[n + 1] = c

\* The code point of a character of the texts used here.
Ord(c) ==
    CASE c = " " -> 32
      [] c = ":" -> 58
      [] c = "A" -> 65
      [] c = "M" -> 77
      [] c = "P" -> 80
      [] OTHER   -> 48 + DigitValue(c)

\* a number as two digits, zero-padded (%H, %I, %M, %S)
TwoDigits(n) == <<Digits[(n \div 10) + 1], Digits[(n % 10) + 1]>>

\* Python's a < b on str
StrLess(a, b) ==
    \/ \E i \in 1..Len(a) :
          /\ i <= Len(b)
          /\ Ord(a[i]) < Ord(b[i])
          /\ \A j \in 1..(i - 1) : a[j] = b[j]
    \/ Len(a) < Len(b) /\ \A j \in 1..Len(a) : a[j] = b[j]

(***************************************************************************)
(* Times of day and their texts (datetime.time, strftime, strptime).       *)
(***************************************************************************)
time(h, m, sec) == [hour |-> h, minute |-> m, second |-> sec]

\* time.strftime('%I:%M %p'): the 12-hour text, "09:00 AM", "12:30 PM"
strftime_I_M_p(t) ==
    LET h12 == IF t.hour % 12 = 0 THEN 12 ELSE t.hour % 12
    IN TwoDigits(h12) \o <<":">> \o TwoDigits(t.minute) \o <<" ">>
         \o (IF t.hour < 12 THEN <<"A", "M">> ELSE <<"P", "M">>)

\* datetime.strptime(s, "%I:%M %p").time()
strptime_I_M_p(str) ==
    LET h12 == 10 * DigitValue(str[1]) + DigitValue(str[2])
        m   == 10 * DigitValue(str[4]) + DigitValue(str[5])
    IN time((h12 % 12) + (IF str[7] = "P" THEN 12 ELSE 0), m, 0)

\* str(t) of a time without microseconds, and now.strftime("%H:%M:%S"):
\* the 24-hour text "HH:MM:SS"
str(t) ==
    TwoDigits(t.hour) \o <<":">> \o TwoDigits(t.minute) \o <<":">>
        \o TwoDigits(t.second)

strftime_H_M_S(t) ==
    TwoDigits(t.hour) \o <<":">> \o TwoDigits(t.minute) \o <<":">>
        \o TwoDigits(t.second)

(***************************************************************************)
(* OpeningHour: the choices of its fields.                                 *)
(***************************************************************************)
DAYS == 1..7

HOUR_OF_DAY_24 ==
    {strftime_I_M_p(time(h, m, 0)) : h \in 0..23, m \in {0, 30}}

\* The days, the hours and the instants the model draws from.
DayPool == DAYS \cap {1, 7}

HourPool ==
    HOUR_OF_DAY_24 \cap
        {strftime_I_M_p(time(0, 0, 0)), strftime_I_M_p(time(9, 0, 0)),
         strftime_I_M_p(time(17, 0, 0))}

NowPool ==
    {time(0, 0, 0), time(8, 59, 59), time(9, 0, 0), time(9, 0, 1),
     time(12, 0, 0), time(17, 0, 0), time(23, 59, 59)}

\* from_hour and to_hour are blank=True: the empty text.
Blank == <<>>

\* The windows drawn for the rows marked closed, whose hours are never
\* read: none (both hours blank), and 09:00 AM to 05:00 PM.
ClosedWindowPool ==
    {<<Blank, Blank>>,
     <<strftime_I_M_p(time(9, 0, 0)), strftime_I_M_p(time(17, 0, 0))>>}

\* The rows a vendor may store. The hours of an open row are among the
\* choices of the field. (An open row with a blank hour, which strptime
\* refuses with a ValueError, is not among the rows drawn.)
OpeningHourRows ==
    [vendor : Vendors, day : DayPool, from_hour : HourPool,
     to_hour : HourPool, is_closed : {FALSE}]
    \cup {[vendor |-> v, day |-> d, from_hour |-> w[1], to_hour |-> w[2],
           is_closed |-> TRUE] :
             v \in Vendors, d \in DayPool, w \in ClosedWindowPool}

NoProbe ==
    [done |-> FALSE, vendor |-> 1, today |-> 1, now |-> time(0, 0, 0),
     is_open |-> "None"]

\* No row: the place of a row in a call that has none.
NoRow ==
    [vendor |-> 0, day |-> 0, from_hour |-> Blank, to_hour |-> Blank,
     is_closed |-> TRUE]

\* A save of an OpeningHour instance: the values of the instance, whether
\* the save raised, and the stored row of the instance once the save is
\* over (none for an instance that was never stored).
NoCall == [op |-> "none", row |-> NoRow, stored |-> NoRow, raised |-> FALSE]

NoInstance == [pk |-> NoPk, user |-> 1, is_approved |-> FALSE]

(***************************************************************************)
(* The state after construction: empty tables, no request running.         *)
(***************************************************************************)
SaveInit ==
    /\ db = [v \in Vendors |-> [exists |-> FALSE, is_approved |-> FALSE]]
    /\ outbox = <<>>
    /\ calls = 0
    /\ pc = [r \in Requests |-> "idle"]
    /\ self = [r \in Requests |-> NoInstance]
    /\ orig = [r \in Requests |-> FALSE]
    /\ mailed = [r \in Requests |-> <<>>]
    /\ replaced = [r \in Requests |-> "NotWritten"]
    /\ err = [r \in Requests |-> "none"]

HoursInit ==
    /\ hours = EmptyBag
    /\ probe = NoProbe
    /\ hourCall = NoCall

\* None, as the value of a text field that is null
NoText == <<"None">>

\* lines 152-157: latitude, longitude and location are null until set.
NoPoint == [null |-> TRUE, x |-> 0, y |-> 0]

ProfileIds == {1}

ProfilesInit ==
    /\ profiles = [p \in ProfileIds |->
                     [latitude |-> NoText, longitude |-> NoText,
                      location |-> NoPoint]]
    /\ profileErr = "none"

UsersInit ==
    /\ users = <<>>
    /\ redirect = <<>>
    /\ ProfilesInit

Init == SaveInit /\ HoursInit /\ UsersInit

(***************************************************************************)
(* Vendor.save, one step per access to shared state.                       *)
(***************************************************************************)
\* line 73: save() is called on an instance of vendor v carrying the
\* incoming flag. A vendor without a row is saved with pk None (it is
\* new); a vendor with a row is saved with its pk. Line 76 is decided here.
BeginSave(r, v, incoming) ==
    /\ pc[r] \in {"idle", "done", "raised"}
    /\ calls < MaxSaves
    /\ calls' = calls + 1
    /\ self' = [self EXCEPT ![r] =
                  [pk |-> IF db[v].exists THEN v ELSE NoPk,
                   user |-> v, is_approved |-> incoming]]
    /\ pc' = [pc EXCEPT ![r] = IF db[v].exists THEN "read" ELSE "write"]
    /\ orig' = [orig EXCEPT ![r] = FALSE]
    /\ mailed' = [mailed EXCEPT ![r] = <<>>]
    /\ replaced' = [replaced EXCEPT ![r] = "NotWritten"]
    /\ err' = [err EXCEPT ![r] = "none"]
    /\ UNCHANGED <<db, outbox, hourVars, userVars>>

\* line 77: orig = Vendor.objects.get(pk=self.pk)
ReadOrig(r) ==
    /\ pc[r] = "read"
    /\ orig' = [orig EXCEPT ![r] = db[self[r].pk].is_approved]
    /\ pc' = [pc EXCEPT ![r] = "notify"]
    /\ UNCHANGED <<db, outbox, calls, self, mailed, replaced, err, hourVars, userVars>>

\* lines 78-92 with a transport that accepts the messages
Notify(r) ==
    /\ pc[r] = "notify"
    /\ LET ms == Notifications(orig[r], self[r])
       IN /\ outbox' = outbox \o ms
          /\ mailed' = [mailed EXCEPT ![r] = ms]
    /\ pc' = [pc EXCEPT ![r] = "write"]
    /\ UNCHANGED <<db, calls, self, orig, replaced, err, hourVars, userVars>>

\* Where save stands after mail.send() raised: nothing catches it.
AfterMailError_Swallowed == "write"

AfterMailError == "raised"

\* lines 78-92 with a transport that fails: mail.send() raises
NotifyFails(r) ==
    /\ pc[r] = "notify"
    /\ Notifications(orig[r], self[r]) /= <<>>
    /\ err' = [err EXCEPT ![r] = "mail"]
    /\ pc' = [pc EXCEPT ![r] = AfterMailError]
    /\ UNCHANGED <<db, outbox, calls, self, orig, mailed, replaced, hourVars, userVars>>

\* The row super().save() stores for an instance.
StoredRow(inst) == [exists |-> TRUE, is_approved |-> inst.is_approved]

\* line 94: super().save() inserts the row of a new instance (the vendor's
\* user has no row yet) or updates the row of an existing one; the
\* instance then carries its pk.
WriteRow(r) ==
    /\ pc[r] = "write"
    /\ self[r].pk = NoPk => ~db[self[r].user].exists
    /\ db' = [db EXCEPT ![self[r].user] = StoredRow(self[r])]
    /\ replaced' = [replaced EXCEPT ![r] = RowText(db[self[r].user])]
    /\ self' = [self EXCEPT ![r].pk = self[r].user]
    /\ pc' = [pc EXCEPT ![r] = "done"]
    /\ UNCHANGED <<outbox, calls, orig, mailed, err, hourVars, userVars>>

\* line 94: super().save() raises: the database refuses the write (a
\* second row for the same user, the unique slug, a lost connection).
WriteFails(r) ==
    /\ pc[r] = "write"
    /\ err' = [err EXCEPT ![r] = "db"]
    /\ pc' = [pc EXCEPT ![r] = "raised"]
    /\ UNCHANGED <<db, outbox, calls, self, orig, mailed, replaced,
                   hourVars, userVars>>

\* Requests run Vendor.save interleaved, one step at a time.
Next ==
    \/ \E r \in Requests, v \in Vendors, incoming \in BOOLEAN :
          BeginSave(r, v, incoming)
    \/ \E r \in Requests : ReadOrig(r)
    \/ \E r \in Requests : Notify(r)
    \/ \E r \in Requests : NotifyFails(r)
    \/ \E r \in Requests : WriteRow(r)
    \/ \E r \in Requests : WriteFails(r)

Spec == Init /\ [][Next]_vars

\* One request at a time: every call of save runs to its end before the
\* next begins.
SeqNext ==
    \/ \E v \in Vendors, incoming \in BOOLEAN : BeginSave("req1", v, incoming)
    \/ ReadOrig("req1")
    \/ Notify("req1")
    \/ NotifyFails("req1")
    \/ WriteRow("req1")
    \/ WriteFails("req1")

SeqSpec == Init /\ [][SeqNext]_vars

(***************************************************************************)
(* Vocabulary of the properties of Vendor.save.                            *)
(***************************************************************************)
\* The call of r is a save of an existing record (line 76 took the branch).
Updating(r) ==
    IF pc[r] = "done" THEN replaced[r] /= "NoRow" ELSE self[r].pk /= NoPk

\* The call of r is past lines 78-92 and the transport did not fail.
PastNotify(r) ==
    \/ pc[r] \in {"write", "done"}
    \/ pc[r] = "raised" /\ err[r] = "db"

BoolText(b) == IF b THEN "True" ELSE "False"

\* How many messages of the outbox carry this subject to this address.
CountMail(subject, address) ==
    Cardinality({i \in 1..Len(outbox) :
                    outbox[i].subject = subject /\ outbox[i].to = <<address>>})

\* C1: a save of an existing record whose incoming is_approved differs
\* from the stored one it read dispatches exactly one notification, to the
\* e-mail of the vendor's user, 'approved' for an incoming True and
\* 'rejected' for an incoming False.
C1_ChangeNotifiesOnce ==
    \A r \in Requests :
        (PastNotify(r) /\ Updating(r) /\ orig[r] /= self[r].is_approved) =>
            /\ Len(mailed[r]) = 1
            /\ mailed[r][1].to = <<Email(self[r].user)>>
            /\ mailed[r][1].template = mail_template
            /\ mailed[r][1].is_approved = self[r].is_approved
            /\ self[r].is_approved => mailed[r][1].subject = ApprovedSubject
            /\ ~self[r].is_approved => mailed[r][1].subject = RejectedSubject
            /\ \E i \in 1..Len(outbox) : outbox[i] = mailed[r][1]

\* A rejection of an approved vendor has been saved, after an approval of
\* the same kind of record was notified.
C1_Witness ==
    \E r \in Requests :
        /\ pc[r] = "done" /\ Updating(r)
        /\ orig[r] = TRUE /\ self[r].is_approved = FALSE
        /\ Len(mailed[r]) = 1
        /\ \E i \in 1..Len(outbox) : outbox[i].subject = ApprovedSubject

\* C2: a save of a new record, whatever its flag, and a save of an
\* existing record whose incoming flag equals the stored one it read,
\* dispatch nothing; and the write of such a save stores the incoming row.
C2_NoChangeNoMail ==
    /\ [](\A r \in Requests :
            (PastNotify(r) /\ (~Updating(r) \/ orig[r] = self[r].is_approved))
                => mailed[r] = <<>>)
    /\ [][\A r \in Requests :
            (pc[r] = "write" /\ pc'[r] = "done" /\ mailed[r] = <<>>) =>
                db'[self[r].user] =
                    [exists |-> TRUE, is_approved |-> self[r].is_approved]]_vars

\* A new record saved as approved and an unchanged record saved again,
\* both written and neither notified.
C2_Witness ==
    /\ outbox = <<>>
    /\ \E r1, r2 \in Requests :
        /\ pc[r1] = "done" /\ ~Updating(r1) /\ self[r1].is_approved
        /\ pc[r2] = "done" /\ Updating(r2) /\ orig[r2] = self[r2].is_approved
        /\ replaced[r2] = BoolText(self[r2].is_approved)

\* C6: when the transport fails, save raises, its write never runs, and the
\* stored record is the one read before the call (one request at a time).
C6_MailErrorAbortsWrite ==
    \A r \in Requests :
        err[r] = "mail" =>
            /\ pc[r] = "raised"
            /\ replaced[r] = "NotWritten"
            /\ mailed[r] = <<>>
            /\ db[self[r].user] = [exists |-> TRUE, is_approved |-> orig[r]]
            /\ db[self[r].user].is_approved /= self[r].is_approved

C6_Witness ==
    \E r \in Requests :
        /\ err[r] = "mail" /\ pc[r] = "raised"
        /\ self[r].is_approved /\ ~db[self[r].user].is_approved

\* C7: two saves of the same vendor that both read False and both carry
\* True each dispatch their own 'approved' notification: none is merged.
C7_BothStaleReadersNotify ==
    \A r1, r2 \in Requests :
        (/\ r1 /= r2
         /\ self[r1].user = self[r2].user
         /\ PastNotify(r1) /\ Updating(r1)
         /\ PastNotify(r2) /\ Updating(r2)
         /\ orig[r1] = FALSE /\ self[r1].is_approved
         /\ orig[r2] = FALSE /\ self[r2].is_approved)
        => CountMail(ApprovedSubject, Email(self[r1].user)) >= 2

\* Both saves are done, one write turned the stored False into True, the
\* other found True already, and the outbox holds two approvals.
C7_Witness ==
    \E r1, r2 \in Requests :
        /\ r1 /= r2 /\ self[r1].user = self[r2].user
        /\ pc[r1] = "done" /\ pc[r2] = "done"
        /\ orig[r1] = FALSE /\ orig[r2] = FALSE
        /\ self[r1].is_approved /\ self[r2].is_approved
        /\ replaced[r1] = "False" /\ replaced[r2] = "True"
        /\ db[self[r1].user].is_approved
        /\ CountMail(ApprovedSubject, Email(self[r1].user)) = 2
        /\ Len(outbox) = 2

\* C8: a save that changed the stored flag and dispatched nothing is one
\* whose read was stale: it read its own incoming value, and the stored
\* value was changed between its read and its write.
C8_SilentChangeIsStale ==
    \A r \in Requests :
        (/\ pc[r] = "done" /\ Updating(r)
         /\ replaced[r] /= BoolText(self[r].is_approved)
         /\ mailed[r] = <<>>)
        => /\ orig[r] = self[r].is_approved
           /\ BoolText(orig[r]) /= replaced[r]

\* The stored flag went from True to False by a save that dispatched
\* nothing, and no 'rejected' notification was ever sent to the vendor.
C8_Witness ==
    \E r \in Requests :
        /\ pc[r] = "done" /\ replaced[r] = "True"
        /\ orig[r] = FALSE
        /\ ~self[r].is_approved /\ mailed[r] = <<>>
        /\ ~db[self[r].user].is_approved
        /\ CountMail(RejectedSubject, Email(self[r].user)) = 0

\* The subjects of the messages sent to an address, in the order sent.
RECURSIVE SubjectsTo(_, _)
SubjectsTo(address, box) ==
    IF box = <<>> THEN <<>>
    ELSE LET rest == SubjectsTo(address, SubSeq(box, 1, Len(box) - 1))
             last == box[Len(box)]
         IN IF last.to = <<address>> THEN Append(rest, last.subject) ELSE rest

\* C13: with one save at a time, a save that has ended after sending a
\* notification, by returning or by raising, leaves the stored is_approved
\* equal to the value the notification announces, and the notifications
\* sent to a vendor alternate between 'approved' and 'rejected'.
C13_NotificationMeansStoredChange ==
    /\ \A r \in Requests :
          (pc[r] \in {"done", "raised"} /\ mailed[r] /= <<>>) =>
              /\ db[self[r].user].exists
              /\ mailed[r][1].subject
                    = (IF db[self[r].user].is_approved
                       THEN ApprovedSubject ELSE RejectedSubject)
    /\ \A v \in Vendors :
          LET sent == SubjectsTo(Email(v), outbox)
          IN \A i \in 1..(Len(sent) - 1) : sent[i] /= sent[i + 1]

(***************************************************************************)
(* The OpeningHour table and Vendor.is_open.                               *)
(***************************************************************************)
\* (a variant whose index also covers is_closed)
SameWindow_WithClosed(a, b) ==
    /\ a.vendor = b.vendor /\ a.day = b.day
    /\ a.from_hour = b.from_hour /\ a.to_hour = b.to_hour
    /\ a.is_closed = b.is_closed

\* Meta.unique_together = ('vendor', 'day', 'from_hour', 'to_hour')
SameWindow(a, b) ==
    /\ a.vendor = b.vendor /\ a.day = b.day
    /\ a.from_hour = b.from_hour /\ a.to_hour = b.to_hour

\* The unique index of line 127 refuses a row whose window a row of the
\* table already has.
Duplicates(table, row) == \E other \in BagToSet(table) : SameWindow(other, row)

\* A vendor stores a new row (an INSERT): the index refuses it with an
\* IntegrityError, the table as it was, or the row is added.
AddOpeningHour(row) ==
    /\ ~probe.done /\ hourCall.op = "none"
    /\ IF Duplicates(hours, row)
       THEN /\ hours' = hours
            /\ hourCall' = [op |-> "create", row |-> row, stored |-> NoRow,
                            raised |-> TRUE]
       ELSE /\ BagCardinality(hours) < MaxRows
            /\ hours' = hours (+) SetToBag({row})
            /\ hourCall' = [op |-> "create", row |-> row, stored |-> row,
                            raised |-> FALSE]
    /\ UNCHANGED <<db, outbox, calls, pc, self, orig, mailed, replaced, err,
                   probe, userVars>>

\* A vendor saves a stored row with new field values (an UPDATE of the row
\* old; the vendor of a row is never edited): the index compares the new
\* window with those of the other rows.
EditOpeningHour(old, row) ==
    /\ ~probe.done /\ hourCall.op = "none"
    /\ old \in BagToSet(hours)
    /\ row.vendor = old.vendor
    /\ LET others == hours (-) SetToBag({old})
       IN  IF Duplicates(others, row)
           THEN /\ hours' = hours
                /\ hourCall' = [op |-> "edit", row |-> row, stored |-> old,
                                raised |-> TRUE]
           ELSE /\ hours' = others (+) SetToBag({row})
                /\ hourCall' = [op |-> "edit", row |-> row, stored |-> row,
                                raised |-> FALSE]
    /\ UNCHANGED <<db, outbox, calls, pc, self, orig, mailed, replaced, err,
                   probe, userVars>>

\* The caller of the save goes on, with the row stored or the exception
\* handled.
OpeningHourSaved ==
    /\ hourCall.op /= "none"
    /\ hourCall' = NoCall
    /\ UNCHANGED <<db, outbox, calls, pc, self, orig, mailed, replaced, err,
                   hours, probe, userVars>>

\* lines 52-53: OpeningHour.objects.filter(vendor=self, day=today)
current_opening_hours_AnyVendor(v, today) ==
    {row \in BagToSet(hours) : row.day = today}

current_opening_hours(v, today) ==
    {row \in BagToSet(hours) : row.vendor = v /\ row.day = today}

\* Every order in which the rows of a query can come: each row as often as
\* the table holds it.
Orders(rows) ==
    LET n == BagCardinality([row \in rows |-> hours[row]])
    IN {o \in [1..n -> rows] :
          \A row \in rows :
             Cardinality({i \in 1..n : o[i] = row}) = hours[row]}

\* Meta.ordering = ('day', '-from_hour'): the orders the queryset can have,
\* latest from_hour text first, rows of equal from_hour in any order.
QueryOrders(rows) ==
    {o \in Orders(rows) :
        \A i, j \in 1..Len(o) :
            i < j => ~StrLess(o[i].from_hour, o[j].from_hour)}

\* line 65: current_time > start and current_time < end
Between_Inclusive(current_time, start, end) ==
    ~StrLess(current_time, start) /\ ~StrLess(end, current_time)

\* (a variant that lets a window run past midnight)
Between_Wrapping(current_time, start, end) ==
    IF StrLess(start, end)
    THEN StrLess(start, current_time) /\ StrLess(current_time, end)
    ELSE StrLess(start, current_time) \/ StrLess(current_time, end)

Between(current_time, start, end) ==
    StrLess(start, current_time) /\ StrLess(current_time, end)

\* line 58: is_open = None
is_open_default_Closed == "False"

is_open_default == "None"

\* lines 59-69: the loop over the rows, in the order they come
RECURSIVE is_open_loop_NoBreak(_, _, _)
is_open_loop_NoBreak(rows, current_time, is_open) ==
    IF rows = <<>> THEN is_open
    ELSE LET i == Head(rows)
         IN IF ~i.is_closed
            THEN LET start == str(strptime_I_M_p(i.from_hour))
                     end   == str(strptime_I_M_p(i.to_hour))
                 IN IF Between(current_time, start, end)
                    THEN is_open_loop_NoBreak(Tail(rows), current_time, "True")
                    ELSE is_open_loop_NoBreak(Tail(rows), current_time, "False")
            ELSE is_open_loop_NoBreak(Tail(rows), current_time, is_open)

RECURSIVE is_open_loop(_, _, _)
is_open_loop(rows, current_time, is_open) ==
    IF rows = <<>> THEN is_open
    ELSE LET i == Head(rows)
         IN IF ~i.is_closed
            THEN LET start == str(strptime_I_M_p(i.from_hour))
                     end   == str(strptime_I_M_p(i.to_hour))
                 IN IF Between(current_time, start, end)
                    THEN "True"
                    ELSE is_open_loop(Tail(rows), current_time, "False")
            ELSE is_open_loop(Tail(rows), current_time, is_open)

\* lines 47-71: what is_open returns for rows coming in this order at `now`
is_open_result(order, now) ==
    is_open_loop(order, strftime_H_M_S(now), is_open_default)

\* Vendor.is_open of vendor v. The weekday (line 50, date.today()) and the
\* time of day (line 54, datetime.now()) are two readings of the clock and
\* are drawn independently; the rows come in any order the query allows.
IsOpen(v, today, now) ==
    /\ ~probe.done /\ hourCall.op = "none"
    /\ \E order \in QueryOrders(current_opening_hours(v, today)) :
          probe' = [done |-> TRUE, vendor |-> v, today |-> today,
                    now |-> now, is_open |-> is_open_result(order, now)]
    /\ UNCHANGED <<db, outbox, calls, pc, self, orig, mailed, replaced, err,
                   hours, hourCall, userVars>>

\* The caller has used the value is_open returned.
IsOpenReturn ==
    /\ probe.done
    /\ probe' = NoProbe
    /\ UNCHANGED <<db, outbox, calls, pc, self, orig, mailed, replaced, err,
                   hours, hourCall, userVars>>

\* The table alone, as the vendors write it.
TableNext ==
    \/ \E row \in OpeningHourRows : AddOpeningHour(row)
    \/ \E old \in OpeningHourRows, row \in OpeningHourRows :
          EditOpeningHour(old, row)
    \/ OpeningHourSaved

TableSpec == Init /\ [][TableNext]_vars

\* The table and its reader. An edit leads to no table that creations
\* alone do not reach, and is_open reads nothing but the table.
HoursNext ==
    \/ \E row \in OpeningHourRows : AddOpeningHour(row)
    \/ OpeningHourSaved
    \/ \E v \in Vendors, today \in DayPool, now \in NowPool :
          IsOpen(v, today, now)
    \/ IsOpenReturn

HoursSpec == Init /\ [][HoursNext]_vars

(***************************************************************************)
(* Vocabulary of the properties of Vendor.is_open.                         *)
(***************************************************************************)
SecondsOfDay(t) == 3600 * t.hour + 60 * t.minute + t.second

\* The time of day a choice of HOUR_OF_DAY_24 was made from.
TimeOfChoice(text) ==
    CHOOSE t \in {time(h, m, 0) : h \in 0..23, m \in {0, 30}} :
        strftime_I_M_p(t) = text

\* The rows of the probed vendor for the probed weekday, and the open ones.
ProbedRows ==
    {row \in BagToSet(hours) :
        row.vendor = probe.vendor /\ row.day = probe.today}

ProbedOpenRows == {row \in ProbedRows : ~row.is_closed}

\* The instant of the probe lies strictly inside the window of the row.
Contains(row, now) ==
    /\ SecondsOfDay(TimeOfChoice(row.from_hour)) < SecondsOfDay(now)
    /\ SecondsOfDay(now) < SecondsOfDay(TimeOfChoice(row.to_hour))

NineAM == <<"0", "9", ":", "0", "0", " ", "A", "M">>
FivePM == <<"0", "5", ":", "0", "0", " ", "P", "M">>

C4_BoundsExclusive ==
    (probe.done /\ Cardinality(ProbedRows) = 1 /\ ProbedOpenRows /= {}) =>
        \A row \in ProbedOpenRows :
            LET from == SecondsOfDay(TimeOfChoice(row.from_hour))
                to   == SecondsOfDay(TimeOfChoice(row.to_hour))
                t    == SecondsOfDay(probe.now)
            IN /\ t = from => probe.is_open = "False"
               /\ t = to => probe.is_open = "False"
               /\ (from < t /\ t < to) => probe.is_open = "True"
               /\ (row.from_hour = NineAM /\ row.to_hour = FivePM) =>
                     /\ probe.now = time(9, 0, 0) => probe.is_open = "False"
                     /\ probe.now = time(12, 0, 0) => probe.is_open = "True"
                     /\ probe.now = time(17, 0, 0) => probe.is_open = "False"

\* 09:00 AM-05:00 PM probed at 17:00:00 is not open.
C4_Witness ==
    /\ probe.done /\ probe.now = time(17, 0, 0) /\ probe.is_open = "False"
    /\ ProbedRows = ProbedOpenRows
    /\ \E row \in ProbedRows :
          ProbedRows = {row} /\ row.from_hour = NineAM /\ row.to_hour = FivePM

\* C5: is_open returns None, which is not False, whenever the vendor has no
\* row for the current weekday or only closed ones, and never otherwise.
C5_NoneIffNoOpenRow ==
    probe.done =>
        /\ ProbedOpenRows = {} =>
              (probe.is_open = "None" /\ probe.is_open /= "False")
        /\ ProbedOpenRows /= {} => probe.is_open /= "None"

\* None is returned for a vendor whose only row of the day is closed, with
\* a window that contains the instant, while another day has an open row.
C5_Witness ==
    /\ probe.done /\ probe.is_open = "None"
    /\ \E row \in ProbedRows :
          /\ row.is_closed /\ row.from_hour /= Blank
          /\ Contains(row, probe.now)
    /\ \E row \in BagToSet(hours) :
          row.vendor = probe.vendor /\ row.day /= probe.today /\ ~row.is_closed

C14_InvertedWindowNeverOpen ==
    (/\ probe.done
     /\ ProbedOpenRows /= {}
     /\ \A row \in ProbedOpenRows :
           SecondsOfDay(TimeOfChoice(row.to_hour))
               <= SecondsOfDay(TimeOfChoice(row.from_hour)))
    => probe.is_open = "False"

\* 05:00 PM to 12:00 AM, alone, probed one second before midnight.
C14_Witness ==
    /\ probe.done /\ probe.is_open = "False"
    /\ probe.now = time(23, 59, 59)
    /\ \E row \in ProbedRows :
          /\ ProbedRows = {row} /\ ~row.is_closed
          /\ row.from_hour = FivePM
          /\ row.to_hour = strftime_I_M_p(time(0, 0, 0))

\* The window of a row, as the index of the table keys it.
Window(row) == <<row.vendor, row.day, row.from_hour, row.to_hour>>

\* Two open rows of one vendor and day whose windows differ and share an
\* instant.
Overlap(a, b) ==
    /\ ~a.is_closed /\ ~b.is_closed
    /\ a.vendor = b.vendor /\ a.day = b.day
    /\ Window(a) /= Window(b)
    /\ \E h \in 0..23 :
          /\ Contains(a, time(h, 15, 0))
          /\ Contains(b, time(h, 15, 0))

VENDOR == 1
CUSTOMER == 2

\* role is null=True: the role of a user who has none (None). The field is
\* a PositiveSmallIntegerField, so no stored role is negative.
NoRole == -1

UserIds == {1, 2, 3}

\* The rows of the User table, as far as detectUser reads them.
UserRows == [role : {NoRole, VENDOR, CUSTOMER}, is_superadmin : BOOLEAN]

\* accounts/utils.py detectUser: the redirect it returns, "None" when no
\* branch is taken and the function falls off its end.
detectUser_AdminFirst(user) ==
    IF user.is_superadmin THEN "/admin"
    ELSE IF user.role = 1 THEN "vendorDashboard"
    ELSE IF user.role = 2 THEN "custDashboard"
    ELSE "None"

detectUser(user) ==
    IF user.role = 1 THEN "vendorDashboard"
    ELSE IF user.role = 2 THEN "custDashboard"
    ELSE IF user.role = NoRole /\ user.is_superadmin THEN "/admin"
    ELSE "None"

\* Any users, none of them looked at yet.
DetectInit ==
    /\ SaveInit /\ HoursInit /\ ProfilesInit
    /\ users \in [UserIds -> UserRows]
    /\ redirect = [u \in UserIds |-> "not called"]

\* A view calls detectUser(user) to find where to send the user.
DetectUser(u) ==
    /\ redirect[u] = "not called"
    /\ redirect' = [redirect EXCEPT ![u] = detectUser(users[u])]
    /\ UNCHANGED <<db, outbox, calls, pc, self, orig, mailed, replaced, err,
                   hourVars, users, profiles, profileErr>>

DetectNext == \E u \in UserIds : DetectUser(u)

DetectSpec == DetectInit /\ [][DetectNext]_vars

\* C10: detectUser sends role 1 to 'vendorDashboard' and role 2 to
\* 'custDashboard', superadmin or not, and a user without a role who is a
\* superadmin to '/admin'.
C10_RedirectByRole ==
    \A u \in UserIds :
        redirect[u] /= "not called" =>
            /\ users[u].role = VENDOR => redirect[u] = "vendorDashboard"
            /\ users[u].role = CUSTOMER => redirect[u] = "custDashboard"
            /\ (users[u].role = NoRole /\ users[u].is_superadmin)
                  => redirect[u] = "/admin"

\* A superadmin with role 1, a superadmin with role 2 and a superadmin
\* without a role have all been redirected.
C10_Witness ==
    \E a, b, c \in UserIds :
        /\ users[a].role = VENDOR /\ users[a].is_superadmin
        /\ redirect[a] = "vendorDashboard"
        /\ users[b].role = CUSTOMER /\ users[b].is_superadmin
        /\ redirect[b] = "custDashboard"
        /\ users[c].role = NoRole /\ users[c].is_superadmin
        /\ redirect[c] = "/admin"

(***************************************************************************)
(* accounts.UserProfile and its save.                                      *)
(***************************************************************************)
\* The texts a caller puts in latitude and longitude: None, the empty
\* text, decimal numbers of at most one decimal, and a text that is no
\* number.
CoordinatePool ==
    {NoText, <<>>, <<"0">>, <<"1", "2", ".", "9">>,
     <<"-", "7", "7", ".", "6">>, <<"x">>}

\* Python's truth of a str or None: any text but the empty one.
Truthy(text) == text /= NoText /\ text /= <<>>

IsDigit(c) == \E i \in 1..Len(Digits) : Digits[i] = c

RECURSIVE DigitsValue(_)
DigitsValue(ds) ==
    IF ds = <<>> THEN 0
    ELSE 10 * DigitsValue(SubSeq(ds, 1, Len(ds) - 1)) + DigitValue(ds[Len(ds)])

Unsigned(text) ==
    IF Len(text) > 0 /\ text[1] = "-" THEN Tail(text) ELSE text

\* The digits before and after the decimal point.
IntegerPart(u) ==
    IF \E i \in 1..Len(u) : u[i] = "."
    THEN SubSeq(u, 1, (CHOOSE i \in 1..Len(u) : u[i] = ".") - 1)
    ELSE u

FractionPart(u) ==
    IF \E i \in 1..Len(u) : u[i] = "."
    THEN SubSeq(u, (CHOOSE i \in 1..Len(u) : u[i] = ".") + 1, Len(u))
    ELSE <<>>

\* float(text) raises ValueError on a text that is no number.
float_raises(text) ==
    LET u == Unsigned(text)
    IN ~(/\ Len(IntegerPart(u)) >= 1
         /\ \A i \in 1..Len(IntegerPart(u)) : IsDigit(IntegerPart(u)[i])
         /\ Len(FractionPart(u)) <= 1
         /\ \A i \in 1..Len(FractionPart(u)) : IsDigit(FractionPart(u)[i]))

\* float(text), in tenths.
float(text) ==
    LET u == Unsigned(text)
        tenths == 10 * DigitsValue(IntegerPart(u))
                     + DigitsValue(FractionPart(u))
    IN IF u = text THEN tenths ELSE 0 - tenths

Point(x, y) == [null |-> FALSE, x |-> x, y |-> y]

\* (a variant that takes the latitude for x)
new_location_Swapped(latitude, longitude) ==
    Point(float(latitude), float(longitude))

\* line 175: Point(float(self.longitude), float(self.latitude))
new_location(latitude, longitude) ==
    Point(float(longitude), float(latitude))

\* line 173: if self.latitude and self.longitude
HasCoordinates(latitude, longitude) == Truthy(latitude) /\ Truthy(longitude)

\* save() of an instance of profile p with the coordinates the caller set
\* and the location the instance carries (that of the row, or none), when
\* nothing raises: the row is written with the location of line 175 when
\* both coordinates are set, and with the location carried otherwise.
SaveProfile(p, latitude, longitude) ==
    /\ HasCoordinates(latitude, longitude)
          => ~float_raises(longitude) /\ ~float_raises(latitude)
    /\ \E location \in {profiles[p].location, NoPoint} :
          profiles' = [profiles EXCEPT ![p] =
                         [latitude |-> latitude, longitude |-> longitude,
                          location |-> IF HasCoordinates(latitude, longitude)
                                       THEN new_location(latitude, longitude)
                                       ELSE location]]
    /\ profileErr' = "none"
    /\ UNCHANGED <<db, outbox, calls, pc, self, orig, mailed, replaced, err,
                   hourVars, users, redirect>>

\* save() raises: float() a ValueError at line 175, or the write of line
\* 176 or 178 an error of the database. No row is written.
SaveProfileRaises(p, latitude, longitude) ==
    /\ \/ /\ HasCoordinates(latitude, longitude)
          /\ float_raises(longitude) \/ float_raises(latitude)
          /\ profileErr' = "ValueError"
       \/ /\ HasCoordinates(latitude, longitude)
             => ~float_raises(longitude) /\ ~float_raises(latitude)
          /\ profileErr' = "DatabaseError"
    /\ UNCHANGED <<db, outbox, calls, pc, self, orig, mailed, replaced, err,
                   hourVars, users, redirect, profiles>>

ProfileNext ==
    \/ \E p \in ProfileIds, latitude \in CoordinatePool,
          longitude \in CoordinatePool :
          SaveProfile(p, latitude, longitude)
    \/ \E p \in ProfileIds, latitude \in CoordinatePool,
          longitude \in CoordinatePool :
          SaveProfileRaises(p, latitude, longitude)

ProfileSpec == Init /\ [][ProfileNext]_vars

\* The numbers the texts of CoordinatePool write, in tenths.
Coordinates ==
    {[text |-> <<"0">>, tenths |-> 0],
     [text |-> <<"1", "2", ".", "9">>, tenths |-> 129],
     [text |-> <<"-", "7", "7", ".", "6">>, tenths |-> -776]}

\* C11: a stored profile whose latitude and longitude are both present
\* (neither None nor empty) has for location the point whose x is the
\* number its longitude writes and whose y the number its latitude writes.
C11_LocationIsLongitudeLatitude ==
    \A p \in ProfileIds :
        (/\ profiles[p].latitude /= NoText /\ profiles[p].latitude /= <<>>
         /\ profiles[p].longitude /= NoText /\ profiles[p].longitude /= <<>>)
        => \E lat \in Coordinates, lon \in Coordinates :
              /\ lat.text = profiles[p].latitude
              /\ lon.text = profiles[p].longitude
              /\ profiles[p].location =
                    [null |-> FALSE, x |-> lon.tenths, y |-> lat.tenths]

\* Latitude 12.9 and longitude -77.6 are stored with the point
\* (-77.6, 12.9), and a later save of the profile has raised on a text
\* that is no number.
C11_Witness ==
    \E p \in ProfileIds :
        /\ profiles[p].latitude = <<"1", "2", ".", "9">>
        /\ profiles[p].longitude = <<"-", "7", "7", ".", "6">>
        /\ profiles[p].location = [null |-> FALSE, x |-> -776, y |-> 129]
        /\ profileErr = "ValueError"

====
